---- MODULE Spec2Model ----
(***************************************************************************)
(* Pin lifecycle of the Signal/IPFS bot (bot.py) and of the operator tool  *)
(* (manage.py).  Both programs share one SQLite table `pins`, the IPFS     *)
(* gateway's pin set and the download directory.                           *)
(*                                                                         *)
(* Time is counted in hours.  A timestamp is stored in the table as the    *)
(* text the writer's sqlite3 adapter produces; the table compares such     *)
(* texts as strings, so a stored timestamp is modelled by its three        *)
(* fields (date, separator, time of day) and not by a number.              *)
(***************************************************************************)
EXTENDS Integers, Sequences, FiniteSets, TLC

\* ------------------------------------------------------------- bounds
MaxTime == 84           \* the clock stops advancing here
TickHours == 84        \* the clock advances in steps of this many hours
MaxDeliveries == 2     \* envelopes the messaging gateway hands out in total
MaxBatch == 2          \* envelopes in one receive response
MaxMgrOps == 1         \* invocations of the operator tool

\* ---------------------------------------------------------- constants
PIN_DURATION == 72     \* hours
HoursPerDay == 24

None == "None"

\* ------------------------------------------------------------ the data
CIDv0 == {"QmA"}       \* matches Qm[base58]{44}
CIDv1 == {"bafyB"}     \* matches bafy[base58]{44}
CIDs == CIDv0 \cup CIDv1

\* The name `ipfs ls` reports first for a directory CID.
LinkName == "name.bin"
FileNames == CIDs \cup {LinkName}

\* Links of Objects[0] in the gateway's ls answer: a plain file has none.
Links(cid) == IF cid \in CIDv1 THEN <<LinkName>> ELSE <<>>

\* A message text is a sequence of words; a word may be a CID.
\* An envelope either carries dataMessage (a received message) or
\* syncMessage (the echo of a message the account sent itself).
DataEnvelope(src, ts, text) ==
    [shape |-> "data", source |-> src, timestamp |-> ts, message |-> text]
SyncEnvelope(src, ts, text) ==
    [shape |-> "sync", source |-> src, timestamp |-> ts, message |-> text]

Envelopes ==
    { DataEnvelope("+1555", 1000, <<"here:", "QmA">>),
      DataEnvelope("+1555", 2000, <<"QmA">>),
      DataEnvelope("+1666", 1000, <<"bafyB">>),
      DataEnvelope("+1666", 2000, <<"hello">>),
      SyncEnvelope("+1999", 3000, <<"QmA">>) }

MsgIds == { <<e.source, e.timestamp>> : e \in Envelopes }

\* ---------------------------------------------------- pure functions

\* is_valid_cid: the first match of the first pattern that matches.
FirstIn(text, family) ==
    LET idx == { i \in 1..Len(text) : text[i] \in family }
    IN  IF idx = {} THEN None
        ELSE text[CHOOSE i \in idx : \A j \in idx : i <= j]

is_valid_cid(text) ==
    IF FirstIn(text, CIDv0) # None THEN FirstIn(text, CIDv0)
    ELSE FirstIn(text, CIDv1)

\* envelope.get("dataMessage", {}).get("message", "")
Content(env) == IF env.shape = "data" THEN env.message ELSE <<>>

\* f"{source}-{timestamp}"
MsgId(env) == <<env.source, env.timestamp>>

\* isoformat with the given separator, to the hour.
Fmt(t, sep) == [date |-> t \div HoursPerDay, sep |-> sep, tod |-> t % HoursPerDay]

\* sqlite3's default datetime adapter, used by bot.py: isoformat(" ").
DefaultAdapt(t) == Fmt(t, " ")

\* manage.py registers its own adapter: isoformat(), separator "T".
adapt_datetime(t) == Fmt(t, "T")

\* datetime.fromisoformat accepts either separator.
convert_datetime(ts) == ts.date * HoursPerDay + ts.tod

\* Code point order of the separator: " " (0x20) sorts before "T" (0x54).
SepOrd(sep) == IF sep = " " THEN 0 ELSE 1

\* SQLite compares TEXT values byte by byte.
TextLess(a, b) ==
    \/ a.date < b.date
    \/ a.date = b.date /\ SepOrd(a.sep) < SepOrd(b.sep)
    \/ a.date = b.date /\ a.sep = b.sep /\ a.tod < b.tod

\* ------------------------------------------------ the table `pins`
Row(cid, pin_time, expire_time, downloaded) ==
    [cid |-> cid, pin_time |-> pin_time, expire_time |-> expire_time,
     downloaded |-> downloaded]

RowsOf(rows, cid) == { r \in rows : r.cid = cid }
HasRow(rows, cid) == RowsOf(rows, cid) # {}
TheRow(rows, cid) == CHOOSE r \in rows : r.cid = cid

\* The row added with neither the PRIMARY KEY nor OR REPLACE.
InsertOrReplace_NoKey(rows, r) == rows \cup {r}

\* add_pin_record left out: the table is not written before the pin call.
InsertOrReplace_Skipped(rows, r) == rows

\* INSERT OR REPLACE: the PRIMARY KEY conflict deletes the old row.
InsertOrReplace(rows, r) == { x \in rows : x.cid # r.cid } \cup {r}

\* INSERT: the caller has checked the PRIMARY KEY (IntegrityError otherwise).
Insert(rows, r) == rows \cup {r}

\* UPDATE pins SET downloaded = ? WHERE cid = ?
UpdateDownloaded(rows, cid, d) ==
    { IF x.cid = cid THEN [x EXCEPT !.downloaded = d] ELSE x : x \in rows }

\* UPDATE pins SET expire_time = ? WHERE cid = ?
UpdateExpire(rows, cid, ts) ==
    { IF x.cid = cid THEN [x EXCEPT !.expire_time = ts] ELSE x : x \in rows }

\* DELETE FROM pins WHERE cid = ?
Delete(rows, cid) == { x \in rows : x.cid # cid }

\* SELECT cid FROM pins WHERE expire_time < ?
SelectExpired(rows, nowText) ==
    { x.cid : x \in { y \in rows : TextLess(y.expire_time, nowText) } }

\* The record add_pin_record writes.
BotRecord(cid, t) ==
    Row(cid, DefaultAdapt(t), DefaultAdapt(t + PIN_DURATION), FALSE)

\* The record pin_local_file writes.
ManualRecord(cid, t) ==
    Row(cid, adapt_datetime(t), adapt_datetime(t + PIN_DURATION), TRUE)

\* new_expire = current_expire + timedelta(hours=hours)
NewExpire(current_expire, hours) == current_expire + hours

\* The dedup check left out: every delivery is handled as new.
AlreadyProcessed_Never(id, seen) == FALSE

\* msg_id in processed_messages
AlreadyProcessed(id, seen) == id \in seen

\* output_path's file name in download_ipfs_content.
FileNameOf(cid) == IF Links(cid) # <<>> THEN Links(cid)[1] ELSE cid


\* --------------------------------------------------------- inputs
UnpinOutcomes == {"ok", "rejected", "transport", "delete_error", "remove_error"}
PinOutcomes == {"ok", "rejected", "transport"}
ManualUnpinOutcomes == {"ok", "notpinned", "rejected", "transport"}
ExtendHours == {-72, 24}

Batches ==
    UNION { [1..n -> Envelopes] : n \in 0..MaxBatch }

\* ---------------------------------------------------------- the state
VARIABLES
    now,                 \* the wall clock, in hours
    pins,                \* the committed rows of the table
    txOpen,              \* the sweep's connection holds the write lock
    txDel,               \* CIDs deleted in the sweep's open transaction
    files,               \* download directory: name -> "none" | "partial" | "full"
    gwPins,              \* CIDs the IPFS gateway has pinned
    processed_messages,  \* bot.py's process-wide set of message ids
    pc,                  \* where the poll loop is suspended
    inbox,               \* messages of the current batch not yet handled
    cur,                 \* the CID / message the loop is working on (replaced:
                         \* history, add_pin_record found a row to replace)
    todo,                \* expired CIDs the running sweep has not reached
    tasks,               \* detached download tasks
    mgr,                 \* the operator tool's invocation and its result
    nDeliv, nMgr,        \* how much of the bounds has been used
    delivered,           \* history: deliveries handled, per message id
    pinAttempts,         \* history: pin/add requests issued, per message id
    notifs,              \* history: send requests issued, per message id
    sweepExpired,        \* history: what the sweep's SELECT returned
    sweepLog             \* history: the sweep's CIDs in order, each with its outcome

vars == <<now, pins, txOpen, txDel, files, gwPins, processed_messages, pc, inbox,
          cur, todo, tasks, mgr, nDeliv, nMgr, delivered, pinAttempts, notifs,
          sweepExpired, sweepLog>>

botStore == <<pins, txOpen, txDel>>
sweepVars == <<todo, sweepExpired, sweepLog>>
msgVars == <<processed_messages, inbox, nDeliv, delivered, pinAttempts, notifs>>
mgrVars == <<mgr, nMgr>>

NoCur == [cid |-> None, id |-> <<None, 0>>, source |-> None, pinned |-> FALSE,
          replaced |-> FALSE]
FreeTask == [cid |-> None, pc |-> "free", unlinked |-> FALSE]
IdleMgr == [pc |-> "idle", op |-> None, cid |-> None, hours |-> 0, read |-> 0,
            res |-> None]
TaskIds == 1..MaxDeliveries

Init ==
    /\ now = 0
    /\ pins = {}
    /\ txOpen = FALSE
    /\ txDel = {}
    /\ files = [f \in FileNames |-> "none"]
    /\ gwPins = {}
    /\ processed_messages = {}
    /\ pc = "loop"
    /\ inbox = <<>>
    /\ cur = NoCur
    /\ todo = {}
    /\ tasks = [i \in TaskIds |-> FreeTask]
    /\ mgr = IdleMgr
    /\ nDeliv = 0
    /\ nMgr = 0
    /\ delivered = [id \in MsgIds |-> 0]
    /\ pinAttempts = [id \in MsgIds |-> 0]
    /\ notifs = [id \in MsgIds |-> 0]
    /\ sweepExpired = {}
    /\ sweepLog = <<>>

\* ------------------------------------------------------- the clock
Tick ==
    /\ mgr.pc = "idle"
    /\ now + TickHours <= MaxTime
    /\ now' = now + TickHours
    /\ UNCHANGED <<pins, txOpen, txDel, files, gwPins, processed_messages, pc,
                   inbox, cur, todo, tasks, mgr, nDeliv, nMgr, delivered,
                   pinAttempts, notifs, sweepExpired, sweepLog>>

\* ------------------------------------------- files shared by both tools

\* os.remove of a file a task still writes: the task keeps an unlinked inode.
Unlink(ts, name) ==
    [i \in DOMAIN ts |->
        IF ts[i].pc = "write" /\ FileNameOf(ts[i].cid) = name
        THEN [ts[i] EXCEPT !.unlinked = TRUE] ELSE ts[i]]

\* ------------------------------------------- bot.py: cleanup_expired_pins

\* The commit at the end of `with sqlite3.connect(DB_PATH) as conn`.
Commit(rows, deleted) == { x \in rows : x.cid \notin deleted }

\* The try/except around the loop instead of inside it: an error ends the sweep.
AfterCleanupError_Abort(rest) == {}

\* What the except clause inside the for loop leaves of the sweep.
AfterCleanupError(rest) == rest

\* The SELECT of the expired CIDs; the first unpin request is then sent.
SweepBegin(first) ==
    /\ pc = "loop"
    /\ LET expired == SelectExpired(pins, DefaultAdapt(now))
       IN  /\ sweepExpired' = expired
           /\ sweepLog' = <<>>
           /\ IF expired = {}
              THEN /\ first = None
                   /\ pc' = "fetch"
                   /\ cur' = NoCur
                   /\ todo' = {}
              ELSE /\ first \in expired
                   /\ pc' = "unpin"
                   /\ cur' = [NoCur EXCEPT !.cid = first]
                   /\ todo' = expired \ {first}
    /\ UNCHANGED <<now, pins, txOpen, txDel, files, gwPins, tasks>>
    /\ UNCHANGED <<msgVars, mgrVars>>

\* The answer to pin/rm for cur.cid, the DELETE and the file removal, then
\* either the next CID's unpin request or the commit that ends the sweep.
SweepUnpinDone(outcome, nxt) ==
    /\ pc = "unpin"
    /\ LET c == cur.cid
           raisedAtUnpin == outcome = "transport"
           deleteOk == ~raisedAtUnpin /\ outcome # "delete_error"
           removeRuns == deleteOk /\ files[c] # "none"
           removeOk == removeRuns /\ outcome # "remove_error"
           failed == raisedAtUnpin \/ outcome = "delete_error"
                        \/ (removeRuns /\ ~removeOk)
           rest == IF failed THEN AfterCleanupError(todo) ELSE todo
           deleted == IF deleteOk THEN txDel \cup {c} ELSE txDel
       IN  /\ outcome = "remove_error" => files[c] # "none"
           /\ gwPins' = IF outcome \in {"ok", "delete_error", "remove_error"}
                        THEN gwPins \ {c} ELSE gwPins
           /\ files' = IF removeOk THEN [files EXCEPT ![c] = "none"] ELSE files
           /\ tasks' = IF removeOk THEN Unlink(tasks, c) ELSE tasks
           /\ sweepLog' = Append(sweepLog, [cid |-> c, outcome |-> outcome])
           /\ IF rest = {}
              THEN /\ nxt = None
                   /\ pins' = Commit(pins, deleted)
                   /\ txOpen' = FALSE
                   /\ txDel' = {}
                   /\ pc' = "fetch"
                   /\ cur' = NoCur
                   /\ todo' = {}
              ELSE /\ nxt \in rest
                   /\ pins' = pins
                   /\ txOpen' = (txOpen \/ deleteOk)
                   /\ txDel' = deleted
                   /\ pc' = "unpin"
                   /\ cur' = [NoCur EXCEPT !.cid = nxt]
                   /\ todo' = rest \ {nxt}
    /\ UNCHANGED <<now, sweepExpired>>
    /\ UNCHANGED <<msgVars, mgrVars>>

\* ------------------------------------------------ bot.py: fetch_messages

\* The receive answer: status 200 and a JSON list of envelopes.
FetchDone(batch) ==
    /\ pc = "fetch"
    /\ nDeliv + Len(batch) <= MaxDeliveries
    /\ nDeliv' = nDeliv + Len(batch)
    /\ inbox' = batch
    /\ pc' = IF batch = <<>> THEN "loop" ELSE "msg"
    /\ sweepExpired' = {}
    /\ sweepLog' = <<>>
    /\ UNCHANGED <<now, pins, txOpen, txDel, files, gwPins, processed_messages,
                   cur, todo, tasks, mgr, nMgr, delivered, pinAttempts, notifs>>

\* main without its try/except: an error in the cycle ends the loop.
FetchFail_Stops ==
    /\ pc = "fetch"
    /\ pc' = "stopped"
    /\ inbox' = <<>>
    /\ sweepExpired' = {}
    /\ sweepLog' = <<>>
    /\ UNCHANGED <<now, pins, txOpen, txDel, files, gwPins, processed_messages,
                   cur, todo, tasks, mgr, nDeliv, nMgr, delivered, pinAttempts,
                   notifs>>

\* The receive answer is not 200, is not JSON, or the request raised.
FetchFail ==
    /\ pc = "fetch"
    /\ pc' = "loop"
    /\ inbox' = <<>>
    /\ sweepExpired' = {}
    /\ sweepLog' = <<>>
    /\ UNCHANGED <<now, pins, txOpen, txDel, files, gwPins, processed_messages,
                   cur, todo, tasks, mgr, nDeliv, nMgr, delivered, pinAttempts,
                   notifs>>

\* process_message returned: the next message of the batch, or the sleep.
AfterMessage == IF Len(inbox) > 1 THEN "msg" ELSE "loop"

\* process_message up to its first suspension (the pin/add request).
ProcessMessage ==
    /\ pc = "msg"
    /\ inbox # <<>>
    /\ LET env == Head(inbox)
           content == Content(env)
           id == MsgId(env)
           cid == is_valid_cid(content)
       IN  /\ inbox' = Tail(inbox)
           /\ delivered' = [delivered EXCEPT ![id] = @ + 1]
           /\ IF content = <<>> \/ AlreadyProcessed(id, processed_messages)
              THEN /\ pc' = AfterMessage
                   /\ UNCHANGED <<processed_messages, pins, cur, pinAttempts>>
              ELSE /\ processed_messages' = processed_messages \cup {id}
                   /\ IF cid = None
                      THEN /\ pc' = AfterMessage
                           /\ UNCHANGED <<pins, cur, pinAttempts>>
                      ELSE /\ pins' = InsertOrReplace(pins, BotRecord(cid, now))
                           /\ pinAttempts' = [pinAttempts EXCEPT ![id] = @ + 1]
                           /\ cur' = [cid |-> cid, id |-> id,
                                      source |-> env.source, pinned |-> FALSE,
                                      replaced |-> HasRow(pins, cid)]
                           /\ pc' = "pin"
    /\ UNCHANGED <<now, txOpen, txDel, files, gwPins, todo, tasks, mgr, nDeliv,
                   nMgr, notifs, sweepExpired, sweepLog>>

\* The answer to pin/add; the confirmation or failure notice is then sent.
PinDone(outcome) ==
    /\ pc = "pin"
    /\ gwPins' = IF outcome = "ok" THEN gwPins \cup {cur.cid} ELSE gwPins
    /\ cur' = [cur EXCEPT !.pinned = (outcome = "ok")]
    /\ notifs' = [notifs EXCEPT ![cur.id] = @ + 1]
    /\ pc' = "send"
    /\ UNCHANGED <<now, pins, txOpen, txDel, files, processed_messages, inbox,
                   todo, tasks, mgr, nDeliv, nMgr, delivered, pinAttempts,
                   sweepExpired, sweepLog>>

\* asyncio.create_task(download_ipfs_content(session, cid))
FreeSlot(ts) == CHOOSE i \in DOMAIN ts : ts[i].pc = "free" /\
                    \A j \in DOMAIN ts : ts[j].pc = "free" => i <= j
create_task(ts, cid) ==
    [ts EXCEPT ![FreeSlot(ts)] = [cid |-> cid, pc |-> "ls", unlinked |-> FALSE]]

\* process_message starting the download after the failure notice as well.
SendDone_AlwaysDownload(sent) ==
    /\ pc = "send"
    /\ tasks' = create_task(tasks, cur.cid)
    /\ cur' = NoCur
    /\ pc' = IF inbox # <<>> THEN "msg" ELSE "loop"
    /\ UNCHANGED <<now, pins, txOpen, txDel, files, gwPins, processed_messages,
                   inbox, todo, mgr, nDeliv, nMgr, delivered, pinAttempts, notifs,
                   sweepExpired, sweepLog>>

\* The answer to the send request (its outcome changes nothing); after a
\* successful pin the download is started and process_message returns.
SendDone(sent) ==
    /\ pc = "send"
    /\ tasks' = IF cur.pinned THEN create_task(tasks, cur.cid) ELSE tasks
    /\ cur' = NoCur
    /\ pc' = IF inbox # <<>> THEN "msg" ELSE "loop"
    /\ UNCHANGED <<now, pins, txOpen, txDel, files, gwPins, processed_messages,
                   inbox, todo, mgr, nDeliv, nMgr, delivered, pinAttempts, notifs,
                   sweepExpired, sweepLog>>


\* ------------------------------------------- bot.py: download_ipfs_content

\* update_pin_status(cid, True) from a second connection: the UPDATE cannot
\* take the write lock while the sweep's transaction is open ("database is
\* locked"), and the except clause of the download swallows the error.
update_pin_status(rows, locked, cid, d) ==
    IF locked THEN rows ELSE UpdateDownloaded(rows, cid, d)

\* Whether that UPDATE raises sqlite3.OperationalError.
update_raises(locked) == locked

\* The answer to ls: not 200, no Objects or an exception end the task.
DlLsDone(i, ok) ==
    /\ tasks[i].pc = "ls"
    /\ tasks' = [tasks EXCEPT ![i] = IF ok THEN [@ EXCEPT !.pc = "get"]
                                       ELSE FreeTask]
    /\ UNCHANGED <<now, pins, txOpen, txDel, files, gwPins, pc, cur>>
    /\ UNCHANGED <<sweepVars, msgVars, mgrVars>>

\* The answer to get: on 200 the output file is opened with mode "wb".
DlGetDone(i, ok) ==
    /\ tasks[i].pc = "get"
    /\ IF ok
       THEN /\ files' = [files EXCEPT ![FileNameOf(tasks[i].cid)] = "partial"]
            /\ tasks' = [tasks EXCEPT ![i] = [@ EXCEPT !.pc = "write"]]
       ELSE /\ files' = files
            /\ tasks' = [tasks EXCEPT ![i] = FreeTask]
    /\ UNCHANGED <<now, pins, txOpen, txDel, gwPins, pc, cur>>
    /\ UNCHANGED <<sweepVars, msgVars, mgrVars>>

\* The body has been streamed to the file (or the stream broke); after a
\* complete write the record is marked downloaded.
DlWriteDone(i, ok) ==
    /\ tasks[i].pc = "write"
    /\ LET cid == tasks[i].cid
           name == FileNameOf(cid)
       IN  IF ok
           THEN /\ files' = IF tasks[i].unlinked THEN files
                            ELSE [files EXCEPT ![name] = "full"]
                /\ pins' = update_pin_status(pins, txOpen, cid, TRUE)
           ELSE UNCHANGED <<files, pins>>
    /\ tasks' = [tasks EXCEPT ![i] = FreeTask]
    /\ UNCHANGED <<now, txOpen, txDel, gwPins, pc, cur>>
    /\ UNCHANGED <<sweepVars, msgVars, mgrVars>>

\* ------------------------------------------------------------ manage.py

Returned(op, cid, hours, res) ==
    [pc |-> "idle", op |-> op, cid |-> cid, hours |-> hours, read |-> 0,
     res |-> res]

\* pin_local_file: `add` of the file yields cid (and pins it); then INSERT.
ManualPin(cid, addOk) ==
    /\ mgr.pc = "idle"
    /\ nMgr < MaxMgrOps
    /\ nMgr' = nMgr + 1
    /\ gwPins' = IF addOk THEN gwPins \cup {cid} ELSE gwPins
    /\ IF addOk /\ ~txOpen /\ ~HasRow(pins, cid)
       THEN /\ pins' = Insert(pins, ManualRecord(cid, now))
            /\ mgr' = Returned("pin", cid, 0, "True")
       ELSE /\ pins' = pins
            /\ mgr' = Returned("pin", cid, 0, "False")
    /\ UNCHANGED <<now, txOpen, txDel, files, pc, cur, tasks>>
    /\ UNCHANGED <<sweepVars, msgVars>>

\* unpin_file: pin/rm, then DELETE, then removal of the local file.
ManualUnpin(cid, outcome) ==
    /\ mgr.pc = "idle"
    /\ nMgr < MaxMgrOps
    /\ nMgr' = nMgr + 1
    /\ gwPins' = IF outcome = "ok" THEN gwPins \ {cid} ELSE gwPins
    /\ IF txOpen
       THEN /\ UNCHANGED <<pins, files, tasks>>
            /\ mgr' = Returned("unpin", cid, 0, "False")
       ELSE /\ pins' = Delete(pins, cid)
            /\ files' = [files EXCEPT ![cid] = "none"]
            /\ tasks' = IF files[cid] # "none" THEN Unlink(tasks, cid) ELSE tasks
            /\ mgr' = Returned("unpin", cid, 0,
                         IF outcome \in {"ok", "notpinned"} THEN "True" ELSE "False")
    /\ UNCHANGED <<now, txOpen, txDel, pc, cur>>
    /\ UNCHANGED <<sweepVars, msgVars>>

\* extend_pin without `if not row: return False`.
ExtendRead_NoCheck(cid, hours) ==
    /\ mgr.pc = "idle"
    /\ nMgr < MaxMgrOps
    /\ nMgr' = nMgr + 1
    /\ mgr' = [pc |-> "ext_write", op |-> "extend", cid |-> cid, hours |-> hours,
               read |-> IF HasRow(pins, cid)
                        THEN convert_datetime(TheRow(pins, cid).expire_time)
                        ELSE now,
               res |-> None]
    /\ UNCHANGED <<now, pins, txOpen, txDel, files, gwPins, pc, cur, tasks>>
    /\ UNCHANGED <<sweepVars, msgVars>>

\* extend_pin, the SELECT: no row ends the call with False.
ExtendRead(cid, hours) ==
    /\ mgr.pc = "idle"
    /\ nMgr < MaxMgrOps
    /\ nMgr' = nMgr + 1
    /\ mgr' = IF HasRow(pins, cid)
              THEN [pc |-> "ext_write", op |-> "extend", cid |-> cid,
                    hours |-> hours,
                    read |-> convert_datetime(TheRow(pins, cid).expire_time),
                    res |-> None]
              ELSE Returned("extend", cid, hours, "False")
    /\ UNCHANGED <<now, pins, txOpen, txDel, files, gwPins, pc, cur, tasks>>
    /\ UNCHANGED <<sweepVars, msgVars>>

\* extend_pin, the UPDATE and the commit.
ExtendWrite ==
    /\ mgr.pc = "ext_write"
    /\ IF txOpen
       THEN /\ pins' = pins
            /\ mgr' = Returned("extend", mgr.cid, mgr.hours, "False")
       ELSE /\ pins' = UpdateExpire(pins, mgr.cid,
                          adapt_datetime(NewExpire(mgr.read, mgr.hours)))
            /\ mgr' = Returned("extend", mgr.cid, mgr.hours, "True")
    /\ UNCHANGED <<now, txOpen, txDel, files, gwPins, pc, cur, tasks, nMgr>>
    /\ UNCHANGED <<sweepVars, msgVars>>

\* ------------------------------------------------------ specification
Next ==
    \/ Tick
    \/ \E first \in CIDs \cup {None} : SweepBegin(first)
    \/ \E o \in UnpinOutcomes, nxt \in CIDs \cup {None} : SweepUnpinDone(o, nxt)
    \/ \E b \in Batches : FetchDone(b)
    \/ FetchFail
    \/ ProcessMessage
    \/ \E o \in PinOutcomes : PinDone(o)
    \/ \E sent \in BOOLEAN : SendDone(sent)
    \/ \E i \in TaskIds, ok \in BOOLEAN : DlLsDone(i, ok)
    \/ \E i \in TaskIds, ok \in BOOLEAN : DlGetDone(i, ok)
    \/ \E i \in TaskIds, ok \in BOOLEAN : DlWriteDone(i, ok)
    \/ \E c \in CIDs, ok \in BOOLEAN : ManualPin(c, ok)
    \/ \E c \in CIDs, o \in ManualUnpinOutcomes : ManualUnpin(c, o)
    \/ \E c \in CIDs, h \in ExtendHours : ExtendRead(c, h)
    \/ ExtendWrite

Spec == Init /\ [][Next]_vars


\* The poll loop is resumed whenever the call it awaits completes (every
\* network call ends, in an answer or in an error), and the clock advances.
BotLoop ==
    \/ \E first \in CIDs \cup {None} : SweepBegin(first)
    \/ \E o \in UnpinOutcomes, nxt \in CIDs \cup {None} : SweepUnpinDone(o, nxt)
    \/ \E b \in Batches : FetchDone(b)
    \/ FetchFail
    \/ ProcessMessage
    \/ \E o \in PinOutcomes : PinDone(o)
    \/ \E sent \in BOOLEAN : SendDone(sent)

FairSpec == Init /\ [][Next]_vars /\ WF_vars(BotLoop) /\ WF_vars(Tick)

\* The bot process on its own (the operator tool is not run): the poll loop,
\* the download tasks it started and the clock.
LoopNext ==
    \/ Tick
    \/ BotLoop
    \/ \E i \in TaskIds, ok \in BOOLEAN : DlLsDone(i, ok)
    \/ \E i \in TaskIds, ok \in BOOLEAN : DlGetDone(i, ok)
    \/ \E i \in TaskIds, ok \in BOOLEAN : DlWriteDone(i, ok)

LoopSpec == Init /\ [][LoopNext]_vars /\ WF_vars(BotLoop)

\* A download task takes its next step: the call it awaits has ended.
Downloads ==
    \/ \E i \in TaskIds, ok \in BOOLEAN : DlLsDone(i, ok)
    \/ \E i \in TaskIds, ok \in BOOLEAN : DlGetDone(i, ok)
    \/ \E i \in TaskIds, ok \in BOOLEAN : DlWriteDone(i, ok)

\* The bot process with every awaited call ending, in the loop and in the
\* download tasks alike.
QuiesceSpec ==
    Init /\ [][LoopNext]_vars /\ WF_vars(BotLoop) /\ WF_vars(Downloads)

\* ------------------------------------------------- steps and notions
\* The step in which process_message handles the head of the batch.
HandlesMessage == pc = "msg" /\ inbox' # inbox

\* The step in which cleanup_expired_pins returns (its commit).
SweepReturns == pc \in {"loop", "unpin"} /\ pc' = "fetch"

\* The step in which extend_pin is called (its SELECT).
ExtendCalled == mgr.pc = "idle" /\ mgr'.op = "extend" /\ nMgr' # nMgr

\* The step in which extend_pin's UPDATE runs and the call returns.
ExtendWrites == mgr.pc = "ext_write" /\ mgr'.pc = "idle"

\* A row's fields as times.
ExpireOf(r) == convert_datetime(r.expire_time)
PinTimeOf(r) == convert_datetime(r.pin_time)

\* The outcome the sweep logged for a CID it has processed.
Logged(log, cid) == \E k \in 1..Len(log) : log[k].cid = cid
OutcomeOf(log, cid) ==
    log[CHOOSE k \in 1..Len(log) : log[k].cid = cid].outcome

\* ------------------------------------------------------------ claims

\* C1: however often a message with the same (source, timestamp) is
\* delivered, one pin request is issued for it (none when it carries no CID)
\* and at most one notification is sent; handling a delivery whose identity
\* is already recorded changes neither the table, the gateway's pins, the
\* notifications, the download tasks nor the files.
C1_OncePerIdentity ==
    /\ [](\A e \in Envelopes :
            LET id == MsgId(e)
            IN  /\ pinAttempts[id] <= 1
                /\ notifs[id] <= 1
                /\ (delivered[id] >= 1 /\ e.shape = "data"
                        /\ \E i \in 1..Len(e.message) : e.message[i] \in CIDs)
                     => pinAttempts[id] = 1)
    /\ [][(HandlesMessage /\ MsgId(Head(inbox)) \in processed_messages)
            => /\ UNCHANGED <<pins, txOpen, txDel, gwPins, files, tasks, notifs,
                             pinAttempts, processed_messages>>
               /\ pc' \in {"msg", "loop"}]_vars

\* The same identity has been handled twice, after its one pin and notice.
C1_Witness ==
    \E id \in MsgIds :
        delivered[id] >= 2 /\ pinAttempts[id] = 1 /\ notifs[id] = 1

\* C2 (as claimed): when the sweep returns, every CID its SELECT found
\* expired has no row and no local file written by the download step,
\* whether the unpin call succeeded, was rejected or failed in transport.
C2_SweptWhateverUnpin ==
    [][SweepReturns =>
        \A c \in sweepExpired' :
            (Logged(sweepLog', c)
                /\ OutcomeOf(sweepLog', c) \in {"ok", "rejected", "transport"})
            => /\ ~HasRow(pins', c)
               /\ files'[FileNameOf(c)] = "none"]_vars


\* C3 (as claimed), for the records the bot wrote itself: under a fairly
\* scheduled poll loop a record whose expire_time is in the past is
\* eventually removed (or extended or sighted again), even if the unpin
\* call keeps failing.  A sweep whose DELETE itself raised is set aside:
\* the claim is about the gateway failing, not the local store.
BotExpired(c) ==
    \E r \in pins : r.cid = c /\ r.expire_time.sep = " " /\ ExpireOf(r) < now
DeleteRaised(c) ==
    Logged(sweepLog, c) /\ OutcomeOf(sweepLog, c) = "delete_error"
C3_ExpiredEventuallyRemoved ==
    \A c \in CIDs : BotExpired(c) ~> (~BotExpired(c) \/ DeleteRaised(c))

\* C4: when the sweep returns, every CID its SELECT found expired has been
\* processed, whatever happened to the CIDs before it, and every one whose
\* own unpin call and DELETE did not raise has no row.
C4_SweepIsolated ==
    [][SweepReturns =>
        \A c \in sweepExpired' :
            /\ Logged(sweepLog', c)
            /\ OutcomeOf(sweepLog', c) \in {"ok", "rejected", "remove_error"}
                 => ~HasRow(pins', c)]_vars

\* A sweep over two CIDs has returned: the first one's cleanup raised and
\* left its row, the second one was unpinned and removed.
C4_Witness ==
    /\ pc = "fetch"
    /\ Len(sweepLog) = 2
    /\ sweepLog[1].outcome = "transport"
    /\ sweepLog[2].outcome = "ok"
    /\ HasRow(pins, sweepLog[1].cid)
    /\ ~HasRow(pins, sweepLog[2].cid)

\* C5 (as claimed): extend_pin's UPDATE on a CID that has a row returns
\* success, leaves that row's expire_time at its previous value plus the
\* hours given, and changes nothing else in the table.
C5_ExtendAddsHours ==
    [][(ExtendWrites /\ HasRow(pins, mgr.cid)) =>
        /\ mgr'.res = "True"
        /\ HasRow(pins', mgr.cid)
        /\ ExpireOf(TheRow(pins', mgr.cid))
             = ExpireOf(TheRow(pins, mgr.cid)) + mgr.hours
        /\ TheRow(pins', mgr.cid).pin_time = TheRow(pins, mgr.cid).pin_time
        /\ TheRow(pins', mgr.cid).downloaded = TheRow(pins, mgr.cid).downloaded
        /\ Delete(pins', mgr.cid) = Delete(pins, mgr.cid)]_vars

\* C6: extend_pin called for a CID that has no row returns False at once
\* and leaves the table as it was.
C6_ExtendUnknownFails ==
    [][(ExtendCalled /\ ~HasRow(pins, mgr'.cid)) =>
        /\ mgr'.pc = "idle"
        /\ mgr'.res = "False"
        /\ UNCHANGED <<pins, txOpen, txDel>>]_vars

\* extend has returned False for a CID without a row while the table
\* holds another CID's row as the bot wrote it.
C6_Witness ==
    /\ mgr.pc = "idle" /\ mgr.op = "extend" /\ mgr.res = "False"
    /\ ~HasRow(pins, mgr.cid)
    /\ \E c \in CIDs : HasRow(pins, c) /\ TheRow(pins, c) = BotRecord(c, 0)
    /\ now = 0

\* C7 (as claimed): while a CID's row exists its expire_time never decreases.
C7_ExpireNeverDecreases ==
    [][\A c \in CIDs :
         (HasRow(pins, c) /\ HasRow(pins', c))
           => ExpireOf(TheRow(pins', c)) >= ExpireOf(TheRow(pins, c))]_vars

\* C8 (as claimed): while a CID's row exists its downloaded flag never goes
\* from true back to false.
C8_DownloadedOneWay ==
    [][\A c \in CIDs :
         (HasRow(pins, c) /\ HasRow(pins', c) /\ TheRow(pins, c).downloaded)
           => TheRow(pins', c).downloaded]_vars

\* C9 (as claimed): every row has expire_time > pin_time, and a row just
\* created has expire_time - pin_time equal to the pin duration.
C9_ExpireAfterPin ==
    /\ [](\A r \in pins : ExpireOf(r) > PinTimeOf(r))
    /\ [][\A r \in pins' \ pins :
            (\A q \in pins : q.cid = r.cid => q.pin_time # r.pin_time)
              => ExpireOf(r) - PinTimeOf(r) = PIN_DURATION]_vars

\* C10: the table never holds two rows for one CID, and a message with a
\* new identity whose CID already has a row is handled like a first
\* sighting: the handler goes on to the pin request and the CID's one row
\* then has pin_time = now, expire_time = now + the pin duration and
\* downloaded = false.
C10_OneRowPerCid ==
    /\ [](\A c \in CIDs : Cardinality(RowsOf(pins, c)) <= 1)
    /\ [][\A c \in CIDs :
            (/\ HandlesMessage
             /\ MsgId(Head(inbox)) \notin processed_messages
             /\ is_valid_cid(Content(Head(inbox))) = c
             /\ HasRow(pins, c))
            => /\ pc' = "pin"
               /\ Cardinality(RowsOf(pins', c)) = 1
               /\ \A r \in RowsOf(pins', c) :
                    /\ PinTimeOf(r) = now
                    /\ ExpireOf(r) = now + PIN_DURATION
                    /\ r.downloaded = FALSE]_vars

\* A second message carrying QmA has replaced the row the first one (or a
\* manual pin) left, at a later hour, and the pin request is out.
C10_Witness ==
    /\ pc = "pin" /\ cur.replaced /\ cur.cid = "QmA"
    /\ {<<"+1555", 1000>>, <<"+1555", 2000>>} \subseteq processed_messages
    /\ now > 0
    /\ \E r \in pins : r.cid = "QmA" /\ PinTimeOf(r) = now

\* The step in which pin_local_file is called and returns.
ManualPinCalled == mgr.pc = "idle" /\ mgr'.op = "pin" /\ nMgr' # nMgr

\* C11 (as claimed): pin_local_file whose add request went through (the
\* gateway holds the CID afterwards and did not before), run while no other
\* connection holds the write lock, returns success and leaves for the CID
\* exactly the record (pin_time = now, expire_time = now + the pin duration,
\* downloaded = true), whether or not the CID had a row before.
C11_ManualPinUpserts ==
    [][(/\ ManualPinCalled
        /\ mgr'.cid \notin gwPins /\ mgr'.cid \in gwPins'
        /\ ~txOpen)
        => /\ mgr'.res = "True"
           /\ RowsOf(pins', mgr'.cid) = {ManualRecord(mgr'.cid, now)}]_vars


\* The step in which the bot sends a pin/add request.
PinRequested == pc # "pin" /\ pc' = "pin"

\* C12: whenever the bot sends a pin/add request for a CID, the committed
\* table already holds the record add_pin_record wrote for it (pin_time =
\* now, expire_time = now + the pin duration, downloaded = false); a request
\* is only ever in flight for a CID taken from a message.
C12_RecordBeforePin ==
    /\ [](pc = "pin" => cur.cid \in CIDs /\ pinAttempts[cur.id] = 1)
    /\ [][PinRequested =>
            /\ ~txOpen'
            /\ RowsOf(pins', cur'.cid) = {BotRecord(cur'.cid, now)}]_vars

\* The pin request of a first sighting is in flight: the row is there and
\* the gateway does not hold the CID yet.
C12_Witness ==
    /\ pc = "pin" /\ ~cur.replaced
    /\ cur.cid \notin gwPins
    /\ TheRow(pins, cur.cid) = BotRecord(cur.cid, now)
    /\ HasRow(pins, cur.cid)

\* The step in which pin_ipfs_content returns False.
PinFails == pc = "pin" /\ pc' = "send" /\ ~cur'.pinned

\* The step in which process_message returns after a failed pin.
ReturnsAfterFailedPin == pc = "send" /\ ~cur.pinned /\ pc' # "send"

\* C13: a failed pin/add leaves the table as add_pin_record wrote it, the
\* handler then returns without starting a download, and the bot sends a
\* pin/add request for a CID only while handling a message it has not
\* processed before whose text carries that CID.
C13_FailedPinKeepsRecord ==
    /\ [][PinFails =>
            /\ UNCHANGED <<pins, txOpen, txDel, tasks, files>>
            /\ cur.cid \notin gwPins' \ gwPins]_vars
    /\ [][ReturnsAfterFailedPin =>
            UNCHANGED <<pins, txOpen, txDel, tasks, files, gwPins, pinAttempts>>]_vars
    /\ [][PinRequested =>
            /\ HandlesMessage
            /\ MsgId(Head(inbox)) \notin processed_messages
            /\ is_valid_cid(Content(Head(inbox))) = cur'.cid
            /\ pinAttempts'[cur'.id] = pinAttempts[cur'.id] + 1]_vars
    /\ [][(\E id \in MsgIds : pinAttempts'[id] # pinAttempts[id])
            => PinRequested]_vars

\* The handler has returned after a failed pin: the row is still as
\* written, the gateway does not hold the CID and no download task exists.
C13_Witness ==
    /\ pc = "loop"
    /\ pinAttempts[<<"+1666", 1000>>] = 1
    /\ notifs[<<"+1666", 1000>>] = 1
    /\ "bafyB" \notin gwPins
    /\ pins = {BotRecord("bafyB", now)}
    /\ \A i \in TaskIds : tasks[i].pc = "free"
    /\ files = [f \in FileNames |-> "none"]
    /\ nMgr = 0

\* The step in which process_message returns after a successful pin.
ReturnsAfterPin == pc = "send" /\ cur.pinned /\ pc' # "send"

\* Download task i ends in this step with the content fully written.
DownloadCompletes(i) ==
    /\ tasks[i].pc = "write" /\ tasks'[i].pc = "free"
    /\ ~tasks[i].unlinked
    /\ files[FileNameOf(tasks[i].cid)] = "partial"
    /\ files'[FileNameOf(tasks[i].cid)] = "full"

\* No other message carrying this CID has been handled so far.
FirstSighting(cid, id) ==
    \A e \in Envelopes :
        (is_valid_cid(Content(e)) = cid /\ MsgId(e) # id)
          => pinAttempts[MsgId(e)] = 0

\* C14 (as claimed): after a successful pin the handler returns with the
\* download only started, the row of a CID sighted for the first time
\* showing downloaded = false; and when a download
\* has written the whole content while the CID's row exists (the running
\* sweep has not deleted it either), the row shows downloaded = true.
C14_DownloadInBackground ==
    /\ [][ReturnsAfterPin =>
            /\ \E i \in TaskIds :
                 /\ tasks[i].pc = "free"
                 /\ tasks'[i] = [cid |-> cur.cid, pc |-> "ls", unlinked |-> FALSE]
            /\ pins' = pins
            /\ (HasRow(pins, cur.cid) /\ FirstSighting(cur.cid, cur.id))
                => ~TheRow(pins', cur.cid).downloaded]_vars
    /\ [][\A i \in TaskIds :
            (/\ DownloadCompletes(i)
             /\ HasRow(pins, tasks[i].cid)
             /\ tasks[i].cid \notin txDel)
              => /\ HasRow(pins', tasks[i].cid)
                 /\ TheRow(pins', tasks[i].cid).downloaded]_vars

\* The step in which process_message returns to fetch_messages.
HandlerReturns ==
    \/ HandlesMessage /\ pc' # "pin"
    \/ pc = "send" /\ pc' # "send"

\* C15: the poll loop always has a next step, whatever failed before; when
\* a handler returns (after a failed pin too) the next message of the batch
\* is handled if there is one; a failed fetch leads back to the sleep and
\* the next cycle; the sweep starts only with the batch handled to its end;
\* and under a fairly scheduled loop the sweep and the fetch come round
\* again and again.
C15_LoopKeepsRunning ==
    /\ [](ENABLED BotLoop)
    /\ [][HandlerReturns => pc' = IF inbox' # <<>> THEN "msg" ELSE "loop"]_vars
    /\ [][(pc = "fetch" /\ pc' # "fetch") => pc' \in {"msg", "loop"}]_vars
    /\ [][(pc = "unpin" /\ pc' # "unpin") => pc' = "fetch"]_vars
    /\ [](pc \in {"loop", "unpin", "fetch"} => inbox = <<>>)
    /\ []<>(pc = "loop")
    /\ []<>(pc = "fetch")

\* A pin has failed in this batch, its failure notice is out, and the next
\* message of the batch is about to be handled.
C15_Witness ==
    /\ pc = "msg" /\ Len(inbox) = 1
    /\ gwPins = {} /\ nMgr = 0
    /\ \E id \in MsgIds : pinAttempts[id] = 1 /\ notifs[id] = 1

\* C16 (as claimed): a message not handled before whose text carries a
\* CID, be it a received message or the echo of one the account sent, is
\* recorded in processed_messages, its CID's record is written and the
\* pin/add request is sent.
C16_BothShapesHandled ==
    [][(/\ HandlesMessage
        /\ MsgId(Head(inbox)) \notin processed_messages
        /\ is_valid_cid(Head(inbox).message) # None)
        => /\ MsgId(Head(inbox)) \in processed_messages'
           /\ HasRow(pins', is_valid_cid(Head(inbox).message))
           /\ pc' = "pin"
           /\ pinAttempts'[MsgId(Head(inbox))] = 1]_vars

\* The step in which cleanup_expired_pins runs its SELECT.
SweepStarts == pc = "loop" /\ pc' \in {"unpin", "fetch"}

\* C17 (as claimed): the CIDs a sweep treats as expired are exactly those
\* whose row has an expire_time earlier than now, whoever wrote it.
C17_ExpiredIsEarlierThanNow ==
    [][SweepStarts =>
        sweepExpired' = { r.cid : r \in { x \in pins : ExpireOf(x) < now } }]_vars

\* C18 (as claimed): when a download has written its file and the CID's row
\* is gone (deleted by a manual unpin or by a sweep, the running one
\* included), the update_pin_status call raises no error, creates no row
\* and changes no other row.
C18_MarkAfterRemovalNoOp ==
    [][\A i \in TaskIds :
        (/\ DownloadCompletes(i)
         /\ (~HasRow(pins, tasks[i].cid) \/ tasks[i].cid \in txDel))
          => /\ ~update_raises(txOpen)
             /\ UNCHANGED <<pins, txOpen, txDel>>]_vars

\* C19 (as claimed), for a positive number of hours: extend_pin's UPDATE
\* changes a row only if its expire_time is still the one the SELECT read,
\* and the call reports success only if the row is there when the UPDATE
\* runs.
C19_ExtendAtomic ==
    [][(ExtendWrites /\ mgr.hours > 0) =>
        /\ (HasRow(pins, mgr.cid) /\ pins' # pins)
             => ExpireOf(TheRow(pins, mgr.cid)) = mgr.read
        /\ mgr'.res = "True" => HasRow(pins, mgr.cid)]_vars

\* C20 (as claimed): no transaction is open while the sweep waits for the
\* answer to an unpin request, and a download that has written the whole
\* content of a CID whose row exists and is not expired leaves that row
\* with downloaded = true and every other row as it was.
C20_ShortTransactions ==
    /\ [](pc = "unpin" => ~txOpen)
    /\ [][\A i \in TaskIds :
            (/\ DownloadCompletes(i)
             /\ HasRow(pins, tasks[i].cid)
             /\ ExpireOf(TheRow(pins, tasks[i].cid)) >= now)
              => /\ HasRow(pins', tasks[i].cid)
                 /\ TheRow(pins', tasks[i].cid).downloaded
                 /\ Delete(pins', tasks[i].cid) = Delete(pins, tasks[i].cid)]_vars

\* The sweep has unpinned and deleted the CID (and removed its file, had
\* there been one) while a download of it is still in flight.
SweptInFlight(c) ==
    /\ Logged(sweepLog, c)
    /\ OutcomeOf(sweepLog, c) \in {"ok", "rejected"}
    /\ \E i \in TaskIds : tasks[i].cid = c /\ tasks[i].pc # "free"

\* C21 (as claimed), for a CID stored under its own name: the sweep leaves
\* the download tasks running, and once a CID has been swept with its
\* download in flight, from some time on the CID either has a row again or
\* has no local file.
C21_LateFileRemoved ==
    /\ [][(pc \in {"loop", "unpin"} /\ pc' # pc) =>
            \A i \in TaskIds : /\ tasks'[i].pc = tasks[i].pc
                               /\ tasks'[i].cid = tasks[i].cid]_vars
    /\ \A c \in CIDv0 :
         SweptInFlight(c) ~> [](HasRow(pins, c) \/ files[FileNameOf(c)] = "none")

\* C22 (as claimed), for a CID stored under its own name and a sweep whose
\* DELETE and file removal raised nothing, with the operator tool not run:
\* when the sweep returns, a CID whose row it has removed is no longer
\* pinned at the gateway and has no local file.
C22_RemovedInLockStep ==
    [][SweepReturns =>
        \A c \in CIDv0 :
            (/\ HasRow(pins, c) /\ ~HasRow(pins', c)
             /\ Logged(sweepLog', c)
             /\ OutcomeOf(sweepLog', c) \in {"ok", "rejected"}
             /\ nMgr = 0)
            => /\ c \notin gwPins'
               /\ files'[FileNameOf(c)] = "none"]_vars

\* A step of cleanup_expired_pins: its SELECT, or the handling of an unpin
\* answer with the DELETE and the file removal that follow.
SweepStep == SweepStarts \/ (pc = "unpin" /\ sweepLog' # sweepLog)

\* C23 (as claimed): no step of the sweep touches a row whose expire_time
\* is not earlier than now: the row stays as it is, no unpin request is sent
\* for its CID, and its local file is left alone.
C23_SweepFrame ==
    [][SweepStep =>
        \A r \in pins :
            ExpireOf(r) >= now
            => /\ r \in pins'
               /\ ~(pc' = "unpin" /\ cur'.cid = r.cid)
               /\ r.cid \in gwPins => r.cid \in gwPins'
               /\ files'[r.cid] = files[r.cid]
               /\ files'[FileNameOf(r.cid)] = files[FileNameOf(r.cid)]]_vars

\* C24 (as claimed), with the operator tool not run: a row the bot wrote
\* (and the running sweep has not deleted) shows downloaded = true only
\* while the file the download writes for its CID is on disk.
C24_DownloadedHasFile ==
    \A r \in pins :
        (/\ r.pin_time.sep = " "
         /\ r.downloaded
         /\ r.cid \notin txDel
         /\ nMgr = 0)
        => files[FileNameOf(r.cid)] # "none"

====
